---- MODULE Spec2Model ----
(***************************************************************************)
(* A model of rvnewop: the RV32 decoder facade (RV32.py) and the           *)
(* RVInstruction value with its classifier and renderer                    *)
(* (RVInstruction.py).  Python str values are TLA+ strings; a bitarray is  *)
(* the string of its bits, most significant first.                         *)
(***************************************************************************)
EXTENDS Integers, Sequences, FiniteSets, TLC

VARIABLES
    hex,                 \* decodeHex: the argument handed to decodeHex
    norm,                \* decodeHex: what reaches self.decode (or the exception)
    reg,                 \* get_print_name: the argument
    printName,           \* get_print_name: the outcome
    inst,                \* an RVInstruction (its fields)
    out,                 \* the outcome of the last method called on inst
    ext,                 \* the extension modules I32, M32, V32, C32 (tables, name sets)
    isa,                 \* the isa argument of RV32.__init__
    constructed,         \* RV32.__init__ has returned
    instructionTable,    \* self.instructionTable
    instructionNameSet,  \* self.instructionNameSet
    pc,                  \* per thread: "idle" or "decode" (inside self.decode)
    arg,                 \* per thread: the bitarray handed to self.decode
    result               \* per thread: the outcome of its last finished call

vars == <<hex, norm, reg, printName, inst, out, ext, isa, constructed,
          instructionTable, instructionNameSet, pc, arg, result>>

(***************************************************************************)
(* Bounds                                                                  *)
(***************************************************************************)
MaxHexLen == 2      \* length of the enumerated low part of a hex text
MaxRegNum == 40     \* register numbers 0..MaxRegNum are enumerated
MaxOps == 3         \* total number of operands of an enumerated instruction
NumThreads == 2     \* threads calling one decoder

(***************************************************************************)
(* Python str helpers                                                      *)
(***************************************************************************)
Char(s, i) == SubSeq(s, i, i)

\* s[n:] for n >= 0
StrFrom(s, n) == SubSeq(s, n + 1, Len(s))

\* s[-n:] for n > 0
StrLast(s, n) == IF Len(s) <= n THEN s ELSE SubSeq(s, Len(s) - n + 1, Len(s))

HexDigits == "0123456789abcdef"

IsHexDigit(c) == \E i \in 1..16 : Char(HexDigits, i) = c

HexVal(c) == CHOOSE v \in 0..15 : Char(HexDigits, v + 1) = c

DecDigits == "0123456789"

IsDecDigit(c) == \E i \in 1..10 : Char(DecDigits, i) = c

DecVal(c) == CHOOSE v \in 0..9 : Char(DecDigits, v + 1) = c

\* the strings over the characters of alphabet, of length exactly n
RECURSIVE StrOfLen(_, _)
StrOfLen(alphabet, n) ==
    IF n = 0 THEN {""}
    ELSE {s \o Char(alphabet, i) : s \in StrOfLen(alphabet, n - 1), i \in 1..Len(alphabet)}

StrUpTo(alphabet, n) == UNION {StrOfLen(alphabet, k) : k \in 0..n}

(***************************************************************************)
(* RV32.decodeHex, lines 33-44                                             *)
(***************************************************************************)
Nibble(v) ==
    (IF v \div 8 = 1 THEN "1" ELSE "0") \o (IF (v \div 4) % 2 = 1 THEN "1" ELSE "0")
    \o (IF (v \div 2) % 2 = 1 THEN "1" ELSE "0") \o (IF v % 2 = 1 THEN "1" ELSE "0")

RECURSIVE Nibbles(_)
Nibbles(digits) ==
    IF digits = "" THEN ""
    ELSE Nibble(HexVal(Char(digits, 1))) \o Nibbles(StrFrom(digits, 1))

RECURSIVE StripLeadingZeros(_)
StripLeadingZeros(bits) ==
    IF Len(bits) > 1 /\ Char(bits, 1) = "0" THEN StripLeadingZeros(StrFrom(bits, 1))
    ELSE bits

\* the digits int(hex, 16) reads: the text without an optional 0x marker
HexBody(text) ==
    IF Len(text) >= 2 /\ SubSeq(text, 1, 2) = "0x" THEN StrFrom(text, 2) ELSE text

\* int(hex, 16) raises ValueError on an empty text or a non-hexadecimal character
IntAccepts(text) ==
    /\ HexBody(text) # ""
    /\ \A i \in 1..Len(HexBody(text)) : IsHexDigit(Char(HexBody(text), i))

\* bin(int(hex, 16))[2:] : the binary text of the value without leading
\* zeros ("0" for the value 0), computed digit by digit
BinOfHex(text) == StripLeadingZeros(Nibbles(HexBody(text)))

RECURSIVE zfill(_, _)
zfill(s, width) == IF Len(s) >= width THEN s ELSE zfill("0" \o s, width)

decodeHexBits(text) ==
    LET bstr == BinOfHex(text)
        size == IF StrLast(bstr, 2) # "11" THEN 16 ELSE 32
    IN  zfill(bstr, size)

\* what decodeHex hands to self.decode, or the exception raised before
decodeHexArg(text) ==
    IF IntAccepts(text) THEN [kind |-> "bits", ba |-> decodeHexBits(text)]
    ELSE [kind |-> "ValueError", ba |-> ""]

HexAlphabet == "0123456789abcdefg"

HexMarkers == {"", "0x"}

HexHighParts == {"", "1000", "ffff0", "10000000", "000"}

HexInputs ==
    {m \o hi \o lo : m \in HexMarkers, hi \in HexHighParts,
                     lo \in StrUpTo(HexAlphabet, MaxHexLen)}

NoCall == [kind |-> "none"]

Idle == [t \in 1..NumThreads |-> "idle"]

InitHex ==
    /\ hex \in HexInputs
    /\ norm = NoCall
    /\ reg = "" /\ printName = NoCall
    /\ inst = NoCall /\ out = NoCall
    /\ ext = NoCall /\ isa = NoCall /\ constructed = FALSE
    /\ instructionTable = <<>> /\ instructionNameSet = {}
    /\ pc = Idle /\ arg = [t \in 1..NumThreads |-> ""]
    /\ result = [t \in 1..NumThreads |-> NoCall]

Normalize ==
    /\ norm' = decodeHexArg(hex)
    /\ UNCHANGED <<hex, reg, printName, inst, out, ext, isa, constructed,
                   instructionTable, instructionNameSet, pc, arg, result>>

NextHex == Normalize

SpecHex == InitHex /\ [][NextHex]_vars

\* the word is a 32-bit word: at most 32 significant bits
Is32BitWord(text) == IntAccepts(text) /\ Len(BinOfHex(text)) <= 32

\* the two lowest bits of the value, read off the last hexadecimal digit
LowTwoBitsSet(text) == HexVal(Char(HexBody(text), Len(HexBody(text)))) % 4 = 3

\* C1: for a hex text denoting a 32-bit word, decode receives 32 bits when
\* the two lowest bits are 11 and 16 bits in every other case.
C1_WidthByLowBits ==
    (norm.kind = "bits" /\ Is32BitWord(hex)) =>
        Len(norm.ba) = (IF LowTwoBitsSet(hex) THEN 32 ELSE 16)

\* C2: every accepted hex text is normalized to exactly 16 or exactly 32 bits.
C2_WidthIs16Or32 ==
    norm.kind = "bits" => Len(norm.ba) \in {16, 32}

(***************************************************************************)
(* RVInstruction.get_print_name, lines 37-70                               *)
(***************************************************************************)
RECURSIVE DecValue(_)
DecValue(digits) ==
    IF digits = "" THEN 0
    ELSE 10 * DecValue(SubSeq(digits, 1, Len(digits) - 1))
         + DecVal(Char(digits, Len(digits)))

\* int(s): an optional sign and at least one decimal digit, else ValueError
IntOfStr(s) ==
    LET signed == Len(s) >= 1 /\ Char(s, 1) \in {"-", "+"}
        digits == IF signed THEN StrFrom(s, 1) ELSE s
    IN  IF digits = "" \/ \E i \in 1..Len(digits) : ~IsDecDigit(Char(digits, i))
        THEN [ok |-> FALSE, val |-> 0]
        ELSE [ok |-> TRUE,
              val |-> IF signed /\ Char(s, 1) = "-" THEN 0 - DecValue(digits)
                      ELSE DecValue(digits)]

\* "{}".format(n) for an integer n
RECURSIVE FormatNat(_)
FormatNat(n) ==
    IF n < 10 THEN Char(DecDigits, n + 1)
    ELSE FormatNat(n \div 10) \o Char(DecDigits, (n % 10) + 1)

FormatInt(n) == IF n < 0 THEN "-" \o FormatNat(0 - n) ELSE FormatNat(n)

Returned(s) == [kind |-> "str", val |-> s]

Raised(e) == [kind |-> e, val |-> ""]

\* a plausible slip: the s-range test placed before the a-range test
get_print_name_s_first(register_name) ==
    IF register_name = "" THEN Raised("IndexError")
    ELSE IF Char(register_name, 1) # "x" THEN Returned(register_name)
    ELSE LET parsed == IntOfStr(StrFrom(register_name, 1))
             xval == parsed.val
         IN  IF ~parsed.ok THEN Raised("ValueError")
             ELSE IF register_name = "x0" THEN Returned("zero")
             ELSE IF register_name = "x1" THEN Returned("ra")
             ELSE IF register_name = "x2" THEN Returned("sp")
             ELSE IF register_name = "x3" THEN Returned("gp")
             ELSE IF register_name = "x4" THEN Returned("tp")
             ELSE IF register_name = "x5" THEN Returned("t0")
             ELSE IF register_name = "x6" THEN Returned("t1")
             ELSE IF register_name = "x7" THEN Returned("t2")
             ELSE IF register_name = "x8" THEN Returned("s0")
             ELSE IF register_name = "x9" THEN Returned("s1")
             ELSE IF xval >= 12 /\ xval <= 27 THEN Returned("s" \o FormatInt(xval - 16))
             ELSE IF xval >= 10 /\ xval <= 17 THEN Returned("a" \o FormatInt(xval - 10))
             ELSE IF xval >= 28 /\ xval <= 31 THEN Returned("t" \o FormatInt(xval - 25))
             ELSE Returned(register_name)

get_print_name(register_name) ==
    IF register_name = "" THEN Raised("IndexError")
    ELSE IF Char(register_name, 1) # "x" THEN Returned(register_name)
    ELSE LET parsed == IntOfStr(StrFrom(register_name, 1))
             xval == parsed.val
         IN  IF ~parsed.ok THEN Raised("ValueError")
             ELSE IF register_name = "x0" THEN Returned("zero")
             ELSE IF register_name = "x1" THEN Returned("ra")
             ELSE IF register_name = "x2" THEN Returned("sp")
             ELSE IF register_name = "x3" THEN Returned("gp")
             ELSE IF register_name = "x4" THEN Returned("tp")
             ELSE IF register_name = "x5" THEN Returned("t0")
             ELSE IF register_name = "x6" THEN Returned("t1")
             ELSE IF register_name = "x7" THEN Returned("t2")
             ELSE IF register_name = "x8" THEN Returned("s0")
             ELSE IF register_name = "x9" THEN Returned("s1")
             ELSE IF xval >= 10 /\ xval <= 17 THEN Returned("a" \o FormatInt(xval - 10))
             ELSE IF xval >= 12 /\ xval <= 27 THEN Returned("s" \o FormatInt(xval - 16))
             ELSE IF xval >= 28 /\ xval <= 31 THEN Returned("t" \o FormatInt(xval - 25))
             ELSE Returned(register_name)

XReg(n) == "x" \o FormatInt(n)

OddRegs == {"", "x", "xa", "x-1", "x+12", "x05", "x010", "sp", "x1f"}

RegInputs ==
    {XReg(n) : n \in 0..MaxRegNum}
    \cup {p \o FormatInt(n) : p \in {"f", "v"}, n \in 0..MaxRegNum}
    \cup OddRegs

InitReg ==
    /\ reg \in RegInputs
    /\ printName = NoCall
    /\ hex = "" /\ norm = NoCall
    /\ inst = NoCall /\ out = NoCall
    /\ ext = NoCall /\ isa = NoCall /\ constructed = FALSE
    /\ instructionTable = <<>> /\ instructionNameSet = {}
    /\ pc = Idle /\ arg = [t \in 1..NumThreads |-> ""]
    /\ result = [t \in 1..NumThreads |-> NoCall]

PrintName ==
    /\ printName' = get_print_name(reg)
    /\ UNCHANGED <<hex, norm, reg, inst, out, ext, isa, constructed,
                   instructionTable, instructionNameSet, pc, arg, result>>

NextReg == PrintName

SpecReg == InitReg /\ [][NextReg]_vars

\* the RISC-V ABI names of x0..x31, from the ISA's calling-convention table
ABINames ==
    <<"zero", "ra", "sp", "gp", "tp", "t0", "t1", "t2", "s0", "s1",
      "a0", "a1", "a2", "a3", "a4", "a5", "a6", "a7",
      "s2", "s3", "s4", "s5", "s6", "s7", "s8", "s9", "s10", "s11",
      "t3", "t4", "t5", "t6">>

\* C3: get_print_name("x<N>") is the ABI name of xN for every N in 0..31
\* (x12..x17 are a2..a7, never an s-name), and the 32 results are distinct.
C3_ABINames ==
    /\ \A n \in 0..31 :
          (reg = XReg(n) /\ printName # NoCall) => printName = Returned(ABINames[n + 1])
    /\ \A n \in 12..17 :
          (reg = XReg(n) /\ printName # NoCall) => Char(printName.val, 1) = "a"
    /\ \A m, n \in 0..31 :
          m # n => get_print_name(XReg(m)) # get_print_name(XReg(n))

C3_Witness == reg = "x12" /\ printName = Returned("a2")

\* C4: a register id that is not one of x0..x31 is returned unchanged,
\* without failing.
C4_IdentityFallback ==
    (printName # NoCall /\ reg \notin {XReg(n) : n \in 0..31}) =>
        printName = Returned(reg)

(***************************************************************************)
(* RVInstruction: classification, lines 75-147                             *)
(***************************************************************************)
\* a plausible slip: a branch mnemonic listed among the jumps
isJump_with_branch(self) ==
    self.name \in
    {"j", "jal", "jalr", "jr", "c.j", "c.jal", "c.jalr", "c.jr", "beq"}

isJump(self) ==
    self.name \in
    {"j", "jal", "jalr", "jr", "c.j", "c.jal", "c.jalr", "c.jr"}

isJumpPCRelative(self) ==
    self.name \in
    {"j", "jal", "c.j", "c.jal"}

isBranch(self) ==
    self.name \in
    {"beq", "bne", "blt", "bltu", "bge", "bgeu", "beqz", "bnez", "blez",
     "bgez", "bltz", "bgtz", "bgt", "ble", "bgtu", "bleu", "c.beqz",
     "c.bnez"}

isControlTransfer(self) == isJump(self) \/ isBranch(self)

isControlTransferPCRelative(self) == isJumpPCRelative(self) \/ isBranch(self)

isLoad(self) ==
    self.name \in
    {"c.fld", "c.lq", "c.lw", "c.flw", "c.ld", "c.fldsp", "c.lwsp",
     "c.flwsp", "c.ldsp", "lb", "lh", "lw", "lbu", "lhu", "ld", "lwu"}

isStore(self) ==
    self.name \in
    {"c.fsd", "c.sq", "c.sw", "c.fsw", "c.sd", "c.fsdsp", "c.swsp",
     "c.fswsp", "c.sdsp", "sb", "sh", "sw", "sd"}

isMemAccess(self) == isLoad(self) \/ isStore(self)

(***************************************************************************)
(* RVInstruction.__str__, lines 149-190                                    *)
(***************************************************************************)
\* ",".join(items)
RECURSIVE Join(_, _)
Join(items, sep) ==
    IF items = <<>> THEN ""
    ELSE IF Len(items) = 1 THEN items[1]
    ELSE items[1] \o sep \o Join(Tail(items), sep)

\* s.strip()
RECURSIVE strip(_)
strip(s) ==
    IF s = "" THEN s
    ELSE IF Char(s, 1) = " " THEN strip(StrFrom(s, 1))
    ELSE IF Char(s, Len(s)) = " " THEN strip(SubSeq(s, 1, Len(s) - 1))
    ELSE s

\* [self.get_print_name(x) for x in registers]: the outcomes, one per register
PrintNames(registers) == [i \in 1..Len(registers) |-> get_print_name(registers[i])]

\* map(str, immediates)
StrOfInts(ints) == [i \in 1..Len(ints) |-> FormatInt(ints[i])]

\* the names rendered as `mnemonic offset(base)`, lines 165-179
BaseLayoutNames ==
    {"lb", "lh", "lw", "lbu", "lhu", "sb", "sh", "sw", "c.lw", "c.sw",
     "c.lwsp", "c.swsp", "jalr"}

\* a plausible slip: the base register is left in the parameter list
str_keep_base(self) ==
    LET destOut == PrintNames(self.dest_registers)
        srcOut == PrintNames(self.src_registers)
        failed ==
            {destOut[i].kind : i \in 1..Len(destOut)}
            \cup {srcOut[i].kind : i \in 1..Len(srcOut)}
        dest == [i \in 1..Len(destOut) |-> destOut[i].val]
        src == [i \in 1..Len(srcOut) |-> srcOut[i].val]
        imm == StrOfInts(self.immediates)
        mask == self.mask
    IN  IF "IndexError" \in failed THEN Raised("IndexError")
        ELSE IF "ValueError" \in failed THEN Raised("ValueError")
        ELSE IF self.name \in BaseLayoutNames
        THEN IF self.name \in {"c.lwsp", "c.swsp"}
             THEN Returned(strip(self.name \o " "
                                 \o Join(dest \o src \o imm \o mask, ",")
                                 \o "(" \o "sp" \o ")"))
             ELSE IF src = <<>> THEN Raised("IndexError")
             ELSE Returned(strip(self.name \o " "
                                 \o Join(dest \o src \o imm \o mask, ",")
                                 \o "(" \o src[1] \o ")"))
        ELSE Returned(strip(self.name \o " " \o Join(dest \o src \o imm \o mask, ",")))

\* a plausible slip: the sources are listed before the destinations
str_src_first(self) ==
    LET destOut == PrintNames(self.dest_registers)
        srcOut == PrintNames(self.src_registers)
        failed ==
            {destOut[i].kind : i \in 1..Len(destOut)}
            \cup {srcOut[i].kind : i \in 1..Len(srcOut)}
        dest == [i \in 1..Len(destOut) |-> destOut[i].val]
        src == [i \in 1..Len(srcOut) |-> srcOut[i].val]
        imm == StrOfInts(self.immediates)
        mask == self.mask
    IN  IF "IndexError" \in failed THEN Raised("IndexError")
        ELSE IF "ValueError" \in failed THEN Raised("ValueError")
        ELSE IF self.name \in BaseLayoutNames
        THEN IF self.name \in {"c.lwsp", "c.swsp"}
             THEN Returned(strip(self.name \o " "
                                 \o Join(src \o dest \o imm \o mask, ",")
                                 \o "(" \o "sp" \o ")"))
             ELSE IF src = <<>> THEN Raised("IndexError")
             ELSE Returned(strip(self.name \o " "
                                 \o Join(Tail(src) \o dest \o imm \o mask, ",")
                                 \o "(" \o src[1] \o ")"))
        ELSE Returned(strip(self.name \o " " \o Join(src \o dest \o imm \o mask, ",")))

str(self) ==
    LET destOut == PrintNames(self.dest_registers)
        srcOut == PrintNames(self.src_registers)
        failed ==
            {destOut[i].kind : i \in 1..Len(destOut)}
            \cup {srcOut[i].kind : i \in 1..Len(srcOut)}
        dest == [i \in 1..Len(destOut) |-> destOut[i].val]
        src == [i \in 1..Len(srcOut) |-> srcOut[i].val]
        imm == StrOfInts(self.immediates)
        mask == self.mask
    IN  IF "IndexError" \in failed THEN Raised("IndexError")
        ELSE IF "ValueError" \in failed THEN Raised("ValueError")
        ELSE IF self.name \in BaseLayoutNames
        THEN IF self.name \in {"c.lwsp", "c.swsp"}
             THEN Returned(strip(self.name \o " "
                                 \o Join(dest \o src \o imm \o mask, ",")
                                 \o "(" \o "sp" \o ")"))
             ELSE IF src = <<>> THEN Raised("IndexError")
             ELSE Returned(strip(self.name \o " "
                                 \o Join(dest \o Tail(src) \o imm \o mask, ",")
                                 \o "(" \o src[1] \o ")"))
        ELSE Returned(strip(self.name \o " " \o Join(dest \o src \o imm \o mask, ",")))

(***************************************************************************)
(* Instructions: every mnemonic the classifier and the renderer name, two  *)
(* they do not, and the default empty name; operands drawn from small sets *)
(***************************************************************************)
Mnemonics ==
    {"j", "jal", "jalr", "jr", "c.j", "c.jal", "c.jalr", "c.jr", "beq",
     "bne", "blt", "bltu", "bge", "bgeu", "beqz", "bnez", "blez", "bgez",
     "bltz", "bgtz", "bgt", "ble", "bgtu", "bleu", "c.beqz", "c.bnez",
     "c.fld", "c.lq", "c.lw", "c.flw", "c.ld", "c.fldsp", "c.lwsp",
     "c.flwsp", "c.ldsp", "lb", "lh", "lw", "lbu", "lhu", "ld", "lwu",
     "c.fsd", "c.sq", "c.sw", "c.fsw", "c.sd", "c.fsdsp", "c.swsp",
     "c.fswsp", "c.sdsp", "sb", "sh", "sw", "sd", "addi", "add", ""}

InstRegs == {"x8", "x12", "f3"}

InstImms == {0 - 4, 8}

InstMasks == {"v0.t"}

RECURSIVE SeqsOfLen(_, _)
SeqsOfLen(S, n) ==
    IF n = 0 THEN {<<>>}
    ELSE {Append(q, e) : q \in SeqsOfLen(S, n - 1), e \in S}

SeqsUpTo(S, n) == UNION {SeqsOfLen(S, k) : k \in 0..n}

Instructions ==
    UNION {UNION {UNION {
        {[name |-> n, dest_registers |-> d, src_registers |-> r,
          immediates |-> i, mask |-> m] :
            n \in Mnemonics,
            m \in SeqsUpTo(InstMasks, MaxOps - Len(d) - Len(r) - Len(i))} :
        i \in SeqsUpTo(InstImms, MaxOps - Len(d) - Len(r))} :
        r \in SeqsUpTo(InstRegs, MaxOps - Len(d))} :
        d \in SeqsUpTo(InstRegs, MaxOps)}

InitInst ==
    /\ inst \in Instructions
    /\ out = NoCall
    /\ hex = "" /\ norm = NoCall
    /\ reg = "" /\ printName = NoCall
    /\ ext = NoCall /\ isa = NoCall /\ constructed = FALSE
    /\ instructionTable = <<>> /\ instructionNameSet = {}
    /\ pc = Idle /\ arg = [t \in 1..NumThreads |-> ""]
    /\ result = [t \in 1..NumThreads |-> NoCall]

\* str(inst)
CallStr ==
    /\ out' = [kind |-> "str", value |-> str(inst)]
    /\ UNCHANGED <<hex, norm, reg, printName, inst, ext, isa, constructed,
                   instructionTable, instructionNameSet, pc, arg, result>>

\* the classification predicates called on inst
CallClassify ==
    /\ out' = [kind |-> "classify",
               isJump |-> isJump(inst),
               isJumpPCRelative |-> isJumpPCRelative(inst),
               isBranch |-> isBranch(inst),
               isControlTransfer |-> isControlTransfer(inst),
               isControlTransferPCRelative |-> isControlTransferPCRelative(inst),
               isLoad |-> isLoad(inst),
               isStore |-> isStore(inst),
               isMemAccess |-> isMemAccess(inst)]
    /\ UNCHANGED <<hex, norm, reg, printName, inst, ext, isa, constructed,
                   instructionTable, instructionNameSet, pc, arg, result>>

NextInst == CallStr \/ CallClassify

SpecInst == InitInst /\ [][NextInst]_vars

\* the ABI name of a register id: the table for x0..x31, the id itself otherwise
ABIOf(r) == IF \E n \in 0..31 : r = XReg(n)
            THEN ABINames[(CHOOSE n \in 0..31 : r = XReg(n)) + 1]
            ELSE r

ABIOfAll(registers) == [i \in 1..Len(registers) |-> ABIOf(registers[i])]

EndsWithBase(s) == s # "" /\ Char(s, Len(s)) = ")"

\* C5: a branch mnemonic is a branch and a control transfer and not a jump;
\* for every name, control transfer = jump or branch, no name is both a jump
\* and a branch, and a PC-relative control transfer is a control transfer.
C5_Classification ==
    out.kind = "classify" =>
        /\ inst.name \in {"beq", "bne", "blt", "bltu", "bge", "bgeu", "c.beqz", "c.bnez"}
              => out.isBranch
        /\ out.isBranch => (out.isControlTransfer /\ ~out.isJump)
        /\ out.isControlTransfer <=> (out.isJump \/ out.isBranch)
        /\ ~(out.isJump /\ out.isBranch)
        /\ out.isControlTransferPCRelative => out.isControlTransfer

C5_Witness ==
    /\ inst.name = "beq" /\ out.kind = "classify"
    /\ out.isBranch /\ out.isControlTransfer /\ ~out.isJump

\* the stack-pointer-relative compressed loads and stores
SpRelativeNames ==
    {"c.fldsp", "c.lwsp", "c.flwsp", "c.ldsp", "c.fsdsp", "c.swsp", "c.fswsp", "c.sdsp"}

\* C7: every memory access is rendered as `mnemonic offset(base)`, the base
\* being the first source (removed from the parameters) or the literal sp
\* for the sp-relative compressed forms; everything else has no base.
C7_MemAccessLayout ==
    (out.kind = "str" /\ (isMemAccess(inst) => inst.src_registers # <<>>)) =>
        IF isMemAccess(inst)
        THEN out.value =
               IF inst.name \in SpRelativeNames
               THEN Returned(inst.name \o " "
                       \o Join(ABIOfAll(inst.dest_registers) \o ABIOfAll(inst.src_registers)
                               \o StrOfInts(inst.immediates) \o inst.mask, ",")
                       \o "(sp)")
               ELSE Returned(inst.name \o " "
                       \o Join(ABIOfAll(inst.dest_registers)
                               \o Tail(ABIOfAll(inst.src_registers))
                               \o StrOfInts(inst.immediates) \o inst.mask, ",")
                       \o "(" \o ABIOf(inst.src_registers[1]) \o ")")
        ELSE ~EndsWithBase(out.value.val)

\* C7 as amended: the offset(base) layout is used exactly for lb, lh, lw,
\* lbu, lhu, sb, sh, sw, c.lw, c.sw, c.lwsp, c.swsp and jalr; c.lwsp and
\* c.swsp take the literal sp and keep every source; the others take the
\* first source as base and drop it from the parameters (IndexError when
\* there is no source); every other name is rendered without a base.
C7_ListedNamesLayout ==
    out.kind = "str" =>
        IF inst.name \in {"c.lwsp", "c.swsp"}
        THEN out.value =
               Returned(inst.name \o " "
                   \o Join(ABIOfAll(inst.dest_registers) \o ABIOfAll(inst.src_registers)
                           \o StrOfInts(inst.immediates) \o inst.mask, ",")
                   \o "(sp)")
        ELSE IF inst.name \in {"lb", "lh", "lw", "lbu", "lhu", "sb", "sh", "sw",
                               "c.lw", "c.sw", "jalr"}
        THEN IF inst.src_registers = <<>>
             THEN out.value = Raised("IndexError")
             ELSE out.value =
                    Returned(inst.name \o " "
                        \o Join(ABIOfAll(inst.dest_registers)
                                \o Tail(ABIOfAll(inst.src_registers))
                                \o StrOfInts(inst.immediates) \o inst.mask, ",")
                        \o "(" \o ABIOf(inst.src_registers[1]) \o ")")
        ELSE out.value.kind = "str" /\ ~EndsWithBase(out.value.val)

C7_Witness ==
    /\ inst.name = "lw" /\ inst.dest_registers = <<"x12">>
    /\ inst.src_registers = <<"x8">> /\ inst.immediates = <<8>>
    /\ out = [kind |-> "str", value |-> Returned("lw a2,8(s0)")]

\* C8: outside the offset(base) layout the rendering is the mnemonic, one
\* space and the comma-joined destinations, sources, immediates and mask
\* entries, in that order, with ABI register names; it has no leading or
\* trailing whitespace, and with no operand it is the bare mnemonic.
C8_PlainLayout ==
    (out.kind = "str" /\ inst.name \notin BaseLayoutNames) =>
        LET params == ABIOfAll(inst.dest_registers) \o ABIOfAll(inst.src_registers)
                      \o StrOfInts(inst.immediates) \o inst.mask
            text == out.value.val
        IN  /\ out.value.kind = "str"
            /\ inst.name # "" =>
                  text = IF params = <<>> THEN inst.name
                         ELSE inst.name \o " " \o Join(params, ",")
            /\ text # "" => (Char(text, 1) # " " /\ Char(text, Len(text)) # " ")

C8_Witness ==
    /\ inst.name = "addi" /\ inst.dest_registers = <<"x12">>
    /\ inst.src_registers = <<"x8">> /\ inst.immediates = <<0 - 4>>
    /\ out = [kind |-> "str", value |-> Returned("addi a2,s0,-4")]

(***************************************************************************)
(* RV32.__init__, lines 12-31                                              *)
(***************************************************************************)
ExtTags == <<"32I", "M", "V", "C">>

\* the opcode keys the extension modules may register: OP, OP-V, quadrant 01
KeyUniverse == {"0110011", "1010111", "01"}

\* an extension module's instructionTable: key -> its decode function
TableOf(tag, keys) == [k \in keys |-> tag \o ":" \o k]

NameSetOf(tag) ==
    CASE tag = "32I" -> {"add", "addi"}
      [] tag = "M" -> {"mul", "add"}
      [] tag = "V" -> {"vadd.vv"}
      [] tag = "C" -> {"c.addi"}

\* the modules I32, M32, V32, C32 with the given key sets
ExtWith(keysI, keysM, keysV, keysC) ==
    LET keys == [t \in {"32I", "M", "V", "C"} |->
                    CASE t = "32I" -> keysI [] t = "M" -> keysM
                      [] t = "V" -> keysV [] t = "C" -> keysC]
    IN  [t \in {"32I", "M", "V", "C"} |->
            [instructionTable |-> TableOf(t, keys[t]),
             instructionNameSet |-> NameSetOf(t)]]

AllExts ==
    {ExtWith(a, b, c, d) : a \in SUBSET KeyUniverse, b \in SUBSET KeyUniverse,
                           c \in SUBSET KeyUniverse, d \in SUBSET KeyUniverse}

DecoderExts ==
    {ExtWith({"0110011"}, {"0110011"}, {"1010111"}, {"01"}),
     ExtWith({"0110011"}, {}, {"0110011", "1010111"}, {})}

\* needle in haystack, for two str values
IsSubstring(needle, haystack) ==
    \E i \in 0..(Len(haystack) - Len(needle)) :
        SubSeq(haystack, i + 1, i + Len(needle)) = needle

SetIsa(tags) == [kind |-> "set", tags |-> tags, text |-> ""]

StrIsa(text) == [kind |-> "str", tags |-> {}, text |-> text]

\* tag in isa: membership for a set of tags, substring for a str
Contains(tag, anIsa) ==
    IF anIsa.kind = "set" THEN tag \in anIsa.tags ELSE IsSubstring(tag, anIsa.text)

IsaInputs ==
    {SetIsa(tags) : tags \in SUBSET {"32I", "M", "V", "C"}}
    \cup {SetIsa({"32I", "F"})}
    \cup {StrIsa(text) : text \in {"32I", "32IMC", "RV32IMC", ""}}

\* dict.update
Update(d, e) ==
    [k \in (DOMAIN d) \cup (DOMAIN e) |-> IF k \in DOMAIN e THEN e[k] ELSE d[k]]

\* a plausible slip: the compressed table merged before the vector table
BuildTable_C_before_V(anIsa, modules) ==
    LET t0 == <<>>
        t1 == IF Contains("32I", anIsa) THEN Update(t0, modules["32I"].instructionTable) ELSE t0
        t2 == IF Contains("M", anIsa) THEN Update(t1, modules["M"].instructionTable) ELSE t1
        t3 == IF Contains("C", anIsa) THEN Update(t2, modules["C"].instructionTable) ELSE t2
        t4 == IF Contains("V", anIsa) THEN Update(t3, modules["V"].instructionTable) ELSE t3
    IN  t4

\* self.instructionTable at the end of __init__
BuildTable(anIsa, modules) ==
    LET t0 == <<>>
        t1 == IF Contains("32I", anIsa) THEN Update(t0, modules["32I"].instructionTable) ELSE t0
        t2 == IF Contains("M", anIsa) THEN Update(t1, modules["M"].instructionTable) ELSE t1
        t3 == IF Contains("V", anIsa) THEN Update(t2, modules["V"].instructionTable) ELSE t2
        t4 == IF Contains("C", anIsa) THEN Update(t3, modules["C"].instructionTable) ELSE t3
    IN  t4

\* self.instructionNameSet at the end of __init__
BuildNameSet(anIsa, modules) ==
    LET n0 == {}
        n1 == IF Contains("32I", anIsa) THEN n0 \cup modules["32I"].instructionNameSet ELSE n0
        n2 == IF Contains("M", anIsa) THEN n1 \cup modules["M"].instructionNameSet ELSE n1
        n3 == IF Contains("C", anIsa) THEN n2 \cup modules["C"].instructionNameSet ELSE n2
    IN  n3

\* RV32(isa)
Construct ==
    /\ ~constructed
    /\ \E i \in IsaInputs :
          /\ isa' = i
          /\ instructionTable' = BuildTable(i, ext)
          /\ instructionNameSet' = BuildNameSet(i, ext)
    /\ constructed' = TRUE
    /\ UNCHANGED <<hex, norm, reg, printName, inst, out, ext, pc, arg, result>>

InitBuild ==
    /\ ext \in AllExts
    /\ isa = NoCall /\ constructed = FALSE
    /\ instructionTable = <<>> /\ instructionNameSet = {}
    /\ hex = "" /\ norm = NoCall
    /\ reg = "" /\ printName = NoCall
    /\ inst = NoCall /\ out = NoCall
    /\ pc = Idle /\ arg = [t \in 1..NumThreads |-> ""]
    /\ result = [t \in 1..NumThreads |-> NoCall]

NextBuild == Construct

SpecBuild == InitBuild /\ [][NextBuild]_vars

(***************************************************************************)
(* RV32.decodeHex and RV32.decode, lines 33-47, called from several        *)
(* threads on one decoder                                                  *)
(***************************************************************************)
\* RVFormatParser.getOpcode: the 2-bit quadrant of a 16-bit sequence, the
\* 7-bit opcode otherwise
getOpcode(ba) == IF Len(ba) = 16 THEN StrLast(ba, 2) ELSE StrLast(ba, 7)

\* the Instruction a decode function of an extension table builds from ba
ApplyDecodeFn(fn, ba) == [kind |-> "Instruction", by |-> fn, binary |-> ba]

\* a plausible slip: a missing key answered with None (dict.get)
decode_get(table, ba) ==
    IF getOpcode(ba) \in DOMAIN table
    THEN ApplyDecodeFn(table[getOpcode(ba)], ba)
    ELSE [kind |-> "None", by |-> "", binary |-> ""]

\* self.instructionTable[RVFormatParser.getOpcode(ba)](ba)
decode(table, ba) ==
    IF getOpcode(ba) \in DOMAIN table
    THEN ApplyDecodeFn(table[getOpcode(ba)], ba)
    ELSE [kind |-> "KeyError", by |-> "", binary |-> ""]

\* an OP word, an OP-V word, a compressed word of quadrant 01, a malformed text
DecoderHexInputs == {"0x00b50533", "0x02008057", "4501", "g1"}

\* the bits of 0x00050293 (addi, opcode OP-IMM, which no module registers)
DecoderBitInputs == {"00000000000001010000001010010011"}

\* thread t calls decodeHex(text): lines 34-42, up to the call of self.decode
decodeHex(t, text) ==
    /\ constructed /\ pc[t] = "idle"
    /\ LET a == decodeHexArg(text)
       IN  IF a.kind = "bits"
           THEN /\ pc' = [pc EXCEPT ![t] = "decode"]
                /\ arg' = [arg EXCEPT ![t] = a.ba]
                /\ result' = [result EXCEPT ![t] = NoCall]
           ELSE /\ result' = [result EXCEPT ![t] =
                                 [kind |-> "raised", input |-> text,
                                  outcome |-> [kind |-> a.kind, by |-> "", binary |-> ""]]]
                /\ UNCHANGED <<pc, arg>>
    /\ UNCHANGED <<hex, norm, reg, printName, inst, out, ext, isa, constructed,
                   instructionTable, instructionNameSet>>

\* thread t calls decode(ba) directly
CallDecode(t, ba) ==
    /\ constructed /\ pc[t] = "idle"
    /\ pc' = [pc EXCEPT ![t] = "decode"]
    /\ arg' = [arg EXCEPT ![t] = ba]
    /\ result' = [result EXCEPT ![t] = NoCall]
    /\ UNCHANGED <<hex, norm, reg, printName, inst, out, ext, isa, constructed,
                   instructionTable, instructionNameSet>>

\* a plausible slip: a missing key is cached in the table (dict.setdefault)
Lookup_caching(t) ==
    /\ pc[t] = "decode"
    /\ result' = [result EXCEPT ![t] =
                     [kind |-> "decoded", input |-> arg[t],
                      outcome |-> decode(instructionTable, arg[t])]]
    /\ instructionTable' =
          IF getOpcode(arg[t]) \in DOMAIN instructionTable THEN instructionTable
          ELSE Update(instructionTable, [k \in {getOpcode(arg[t])} |-> "unknown"])
    /\ pc' = [pc EXCEPT ![t] = "idle"]
    /\ UNCHANGED <<hex, norm, reg, printName, inst, out, ext, isa, constructed,
                   instructionNameSet, arg>>

\* thread t runs the body of decode, line 47, and returns or raises
Lookup(t) ==
    /\ pc[t] = "decode"
    /\ result' = [result EXCEPT ![t] =
                     [kind |-> "decoded", input |-> arg[t],
                      outcome |-> decode(instructionTable, arg[t])]]
    /\ pc' = [pc EXCEPT ![t] = "idle"]
    /\ UNCHANGED <<hex, norm, reg, printName, inst, out, ext, isa, constructed,
                   instructionTable, instructionNameSet, arg>>

Init ==
    /\ ext \in DecoderExts
    /\ isa = NoCall /\ constructed = FALSE
    /\ instructionTable = <<>> /\ instructionNameSet = {}
    /\ hex = "" /\ norm = NoCall
    /\ reg = "" /\ printName = NoCall
    /\ inst = NoCall /\ out = NoCall
    /\ pc = Idle /\ arg = [t \in 1..NumThreads |-> ""]
    /\ result = [t \in 1..NumThreads |-> NoCall]

Next ==
    \/ Construct
    \/ \E t \in 1..NumThreads, text \in DecoderHexInputs : decodeHex(t, text)
    \/ \E t \in 1..NumThreads, ba \in DecoderBitInputs : CallDecode(t, ba)
    \/ \E t \in 1..NumThreads : Lookup(t)

Spec == Init /\ [][Next]_vars

C9_ConfigReadOnly ==
    constructed =>
        /\ instructionTable = BuildTable(isa, ext)
        /\ instructionNameSet = BuildNameSet(isa, ext)
        /\ \A t \in 1..NumThreads :
              result[t].kind = "decoded" =>
                  result[t].outcome = decode(BuildTable(isa, ext), result[t].input)
        /\ \A t, u \in 1..NumThreads :
              (result[t].kind = "decoded" /\ result[u].kind = "decoded"
               /\ result[t].input = result[u].input)
              => result[t].outcome = result[u].outcome

\* on a decoder with a non-empty table, one thread is inside decode while
\* another has had a failing call
C9_Witness ==
    /\ constructed /\ DOMAIN instructionTable # {}
    /\ \E t, u \in 1..NumThreads :
          /\ t # u /\ pc[t] = "decode"
          /\ result[u].kind = "decoded" /\ result[u].outcome.kind = "KeyError"

\* the position in the merge order of the last requested module defining k
LastDefining(k, requested, modules) ==
    CHOOSE i \in 1..4 :
        /\ ExtTags[i] \in requested /\ k \in DOMAIN modules[ExtTags[i]].instructionTable
        /\ \A j \in (i + 1)..4 :
              ~(ExtTags[j] \in requested /\ k \in DOMAIN modules[ExtTags[j]].instructionTable)

\* C10: the table holds exactly the keys of the requested extensions, each
\* with the entry of the last defining extension in the order 32I, M, V, C;
\* the name set is the union of the name sets of the requested extensions
\* among 32I, M and C; V and unrequested extensions add no names.
C10_MergeOrder ==
    (constructed /\ isa.kind = "set") =>
        LET requested == isa.tags \cap {"32I", "M", "V", "C"}
        IN  /\ DOMAIN instructionTable =
                  UNION {DOMAIN ext[t].instructionTable : t \in requested}
            /\ \A k \in DOMAIN instructionTable :
                  instructionTable[k] =
                      ext[ExtTags[LastDefining(k, requested, ext)]].instructionTable[k]
            /\ instructionNameSet =
                  UNION {ext[t].instructionNameSet : t \in requested \ {"V"}}

\* everything requested, a key both V32 and C32 register: the C32 entry wins
C10_Witness ==
    /\ constructed /\ isa = SetIsa({"32I", "M", "V", "C"})
    /\ \E k \in (DOMAIN ext["V"].instructionTable) \cap (DOMAIN ext["C"].instructionTable) :
          instructionTable[k] = ext["C"].instructionTable[k]
    /\ "vadd.vv" \notin instructionNameSet

====
